---- MODULE Spec2Model ----
(***************************************************************************)
(* extendProviderWithAccounts: an EIP-1193 middleware that adds local      *)
(* accounts and impersonation in front of an underlying provider.          *)
(*                                                                         *)
(* Two variants of the function exist in the repository:                   *)
(*   "client" - src/src/index.ts: broadcasts through a lazily built viem   *)
(*              wallet client (getClients), has strict validation and      *)
(*              caller-supplied handlers;                                  *)
(*   "raw"    - src/unnamed/part_000: signs locally and calls              *)
(*              eth_sendRawTransaction itself, has the tevmPendingCount    *)
(*              fix.                                                       *)
(* The variant is part of the configuration chosen in Init.                *)
(***************************************************************************)
EXTENDS Integers, Sequences, FiniteSets, TLC

VARIABLES options, accounts, clients, slots

vars == <<options, accounts, clients, slots>>

\* Number of request slots that may be in flight at once in SpecConc.
MaxConc == 2

Procs == 1..MaxConc

------------------------------------------------------------------------------
(* JavaScript values.  Every optional string is a string, "undefined"      *)
(* standing for a missing property.                                        *)

Undefined == "undefined"

\* JS truthiness of an optional string
Truthy(v) == v # Undefined /\ v # ""

\* Addresses as viem produces them (checksummed, mixed case) and the same
\* addresses as a caller may write them (lower case).
ChecksumAddresses == {"0xAb01", "0xCd02"}
LowerAddresses == {"0xab01", "0xcd02"}
Addresses == ChecksumAddresses \cup LowerAddresses

\* String.prototype.toLowerCase on the address strings
toLowerCase(a) ==
  CASE a = "0xAb01" -> "0xab01"
    [] a = "0xCd02" -> "0xcd02"
    [] OTHER -> a

\* privateKeyToAccount(pk).address
privateKeyToAccount(pk) ==
  CASE pk = "pk1" -> "0xAb01"
    [] pk = "pk2" -> "0xCd02"

\* BigInt(hex) / Number(hex) / parseInt(hex, 16) on 0x-prefixed hex strings
HexValue(h) ==
  CASE h = "0x0" -> 0
    [] h = "0x1" -> 1
    [] h = "0x2" -> 2

TxFields == {"from", "to", "data", "gas", "nonce", "chainId", "value", "type",
             "gasPrice", "maxFeePerGas", "maxPriorityFeePerGas", "accessList"}

\* an object with none of the transaction properties
NoTx == [f \in TxFields |-> Undefined]

\* a JS value in a params list: a string, an object or undefined
Str(s) == [tag |-> "string", str |-> s, obj |-> NoTx]
Obj(o) == [tag |-> "object", str |-> "", obj |-> o]
Undef == [tag |-> "undefined", str |-> "", obj |-> NoTx]

\* arr[i] in JavaScript (0-based): undefined beyond the end
At(arr, i) == IF i + 1 <= Len(arr) THEN arr[i + 1] ELSE Undef

\* an optional params list: present = FALSE is a missing `params` property
NoParams == [present |-> FALSE, list |-> <<>>]
Params(l) == [present |-> TRUE, list |-> l]

------------------------------------------------------------------------------
(* Configuration (ProviderOptions) and construction.                       *)

Variants == {"client", "raw"}

\* options.impersonate?.mode; "none" when options.impersonate is undefined
Modes == {"none", "always", "unknown", "list"}

AccountMethods == {"eth_sendTransaction", "eth_accounts", "eth_requestAccounts",
                   "personal_sign", "eth_sign", "eth_signTransaction",
                   "eth_signTypedData", "eth_signTypedData_v4"}

\* mnemonicToAccount(mnemonic, {accountIndex: i}).address
mnemonicToAccount(mnemonic, i) ==
  <<"0x1000", "0x1001", "0x1002", "0x1003", "0x1004",
    "0x1005", "0x1006", "0x1007", "0x1008", "0x1009">>[i + 1]

\* the count used when accounts.numAccounts is falsy
DefaultNumAccounts == 10

\* faulty variant: the accounts in the reverse order of the keys
BuildAccounts_Reversed(opts) ==
  [i \in 1..Len(opts.privateKeys) |->
     privateKeyToAccount(opts.privateKeys[Len(opts.privateKeys) + 1 - i])]

\* the accounts array built at construction. options.accounts has one of two
\* shapes: with privateKeys (mnemonic is Undefined then) or with a mnemonic
\* and an optional numAccounts
BuildAccounts(opts) ==
  IF opts.mnemonic = Undefined
  THEN [i \in 1..Len(opts.privateKeys) |-> privateKeyToAccount(opts.privateKeys[i])]
  ELSE IF Truthy(opts.mnemonic)
  THEN LET num == IF opts.numAccounts # <<>> /\ opts.numAccounts[1] # 0
                  THEN opts.numAccounts[1] ELSE DefaultNumAccounts
       IN [i \in 1..num |-> mnemonicToAccount(opts.mnemonic, i - 1)]
  ELSE <<>>

\* the least index in S, 0 when S is empty
First(S) == IF S = {} THEN 0 ELSE CHOOSE i \in S : \A j \in S : i <= j

\* accounts.find((a) => a.address === address): index of the first match, 0
\* for undefined
FindExact(accts, address) == First({i \in 1..Len(accts) : accts[i] = address})

\* accounts.find((a) => a.address.toLowerCase() === address.toLowerCase())
FindIgnoringCase(accts, address) ==
  First({i \in 1..Len(accts) : toLowerCase(accts[i]) = toLowerCase(address)})

\* list.includes(x): strict equality on the elements
Includes(list, x) == \E i \in 1..Len(list) : list[i] = x

------------------------------------------------------------------------------
(* Strict validation, client variant.                                      *)

\* faulty variant: reports the first missing field only
validateTransaction_FirstOnly(tx) ==
  IF ~Truthy(tx.from) THEN <<"from">>
  ELSE IF ~Truthy(tx.gas) THEN <<"gas">>
  ELSE IF ~Truthy(tx.nonce) THEN <<"nonce">>
  ELSE IF tx.type = "0x2"
  THEN IF tx.maxFeePerGas = Undefined THEN <<"maxFeePerGas">>
       ELSE IF tx.maxPriorityFeePerGas = Undefined THEN <<"maxPriorityFeePerGas">>
       ELSE <<>>
  ELSE IF tx.gasPrice = Undefined THEN <<"gasPrice">> ELSE <<>>

validateTransaction(tx) ==
  LET e1 == IF ~Truthy(tx.from) THEN <<"from">> ELSE <<>>
      e2 == IF ~Truthy(tx.gas) THEN <<"gas">> ELSE <<>>
      e3 == IF ~Truthy(tx.nonce) THEN <<"nonce">> ELSE <<>>
      hasGasPrice == tx.gasPrice # Undefined
      hasMaxFee == tx.maxFeePerGas # Undefined
      hasMaxPriority == tx.maxPriorityFeePerGas # Undefined
      e4 == IF tx.type = "0x2"
            THEN (IF ~hasMaxFee THEN <<"maxFeePerGas">> ELSE <<>>)
                 \o (IF ~hasMaxPriority THEN <<"maxPriorityFeePerGas">> ELSE <<>>)
            ELSE (IF ~hasGasPrice THEN <<"gasPrice">> ELSE <<>>)
  IN e1 \o e2 \o e3 \o e4

------------------------------------------------------------------------------
(* Impersonation policy.                                                   *)

shouldImpersonate(opts, accts, address) ==
  IF opts.mode = "always" THEN TRUE
  ELSE IF opts.mode = "unknown"
       THEN IF opts.variant = "client"
            THEN ~\E i \in 1..Len(accts) : toLowerCase(accts[i]) = toLowerCase(address)
            ELSE ~\E i \in 1..Len(accts) : accts[i] = address
  ELSE IF opts.mode = "list" THEN Includes(opts.list, address)
  ELSE FALSE

------------------------------------------------------------------------------
(* Transaction normalisation.  A normalised transaction keeps each numeric  *)
(* field as <<n>> when set and <<>> when the property is undefined/absent.  *)

NoNormTx == [type |-> Undefined, to |-> Undefined, data |-> Undefined,
             accessList |-> Undefined, nonce |-> <<>>, gas |-> <<>>,
             chainId |-> <<>>, value |-> <<>>, gasPrice |-> <<>>,
             maxFeePerGas |-> <<>>, maxPriorityFeePerGas |-> <<>>]

\* `x ? BigInt(x) : undefined`, `if (x) params.f = BigInt(x)`
Num(h) == IF Truthy(h) THEN <<HexValue(h)>> ELSE <<>>

\* `if (x) params.f = x` for a passed-through string property
Pass(v) == IF Truthy(v) THEN v ELSE Undefined

\* client variant; ok = FALSE is `throw new Error('tx type ... not implemented')`
toViemTransaction(tx) ==
  IF tx.type = "0x1"
  THEN [ok |-> TRUE,
        tx |-> [NoNormTx EXCEPT !.type = "eip2930", !.to = tx.to,
                  !.nonce = Num(tx.nonce), !.gas = Num(tx.gas),
                  !.gasPrice = Num(tx.gasPrice), !.data = tx.data,
                  !.accessList = tx.accessList, !.value = Num(tx.value)]]
  ELSE IF tx.type = "0x2"
  THEN [ok |-> TRUE,
        tx |-> [NoNormTx EXCEPT !.type = "eip1559", !.to = tx.to,
                  !.nonce = Num(tx.nonce), !.gas = Num(tx.gas),
                  !.maxFeePerGas = Num(tx.maxFeePerGas),
                  !.maxPriorityFeePerGas = Num(tx.maxPriorityFeePerGas),
                  !.data = tx.data, !.accessList = tx.accessList,
                  !.value = Num(tx.value)]]
  ELSE IF ~Truthy(tx.type) \/ tx.type = "0x0"
  THEN [ok |-> TRUE,
        tx |-> [NoNormTx EXCEPT !.type = "eip2930", !.to = tx.to,
                  !.nonce = Num(tx.nonce), !.gas = Num(tx.gas),
                  !.gasPrice = Num(tx.gasPrice), !.data = tx.data,
                  !.value = Num(tx.value)]]
  ELSE [ok |-> FALSE, tx |-> NoNormTx]

\* raw variant
parseTxParams(tx) ==
  LET base == [NoNormTx EXCEPT !.to = Pass(tx.to), !.data = Pass(tx.data),
                 !.gas = Num(tx.gas), !.nonce = Num(tx.nonce),
                 !.chainId = Num(tx.chainId), !.accessList = Pass(tx.accessList)]
  IN IF tx.type = "0x1"
     THEN [base EXCEPT !.type = "eip2930", !.gasPrice = Num(tx.gasPrice)]
     ELSE IF tx.type = "0x2"
     THEN [base EXCEPT !.type = "eip1559",
             !.maxFeePerGas = Num(tx.maxFeePerGas),
             !.maxPriorityFeePerGas = Num(tx.maxPriorityFeePerGas)]
     ELSE [base EXCEPT !.type = "legacy", !.gasPrice = Num(tx.gasPrice)]

------------------------------------------------------------------------------
(* One request in flight: where it is suspended, the calls it has made to  *)
(* its collaborators, and how it was settled.                              *)

NoOutcome == [status |-> "pending", kind |-> "", value |-> <<>>]

IdleSlot == [pc |-> "idle",
             args |-> [method |-> "", params |-> NoParams],
             ran |-> "none",              \* which layer's handler ran
             account |-> 0,               \* const account (index, 0 = undefined)
             client |-> <<>>,             \* const clients = await getClients()
             built |-> FALSE,             \* this request constructed a client pair
             transportCalls |-> <<>>,     \* provider.request(...) calls
             impersonateCalls |-> <<>>,   \* impersonator.impersonateAccount(...) calls
             signCalls |-> <<>>,          \* account.sign...(...) calls
             outcome |-> NoOutcome]

Resolve(s, kind, value) ==
  [s EXCEPT !.pc = "done",
            !.outcome = [status |-> "resolved", kind |-> kind, value |-> value]]

\* `throw new Error(message)`: kind is the message, value its interpolated part
Reject(s, kind, value) ==
  [s EXCEPT !.pc = "done",
            !.outcome = [status |-> "rejected", kind |-> kind, value |-> value]]

\* const tx = params[0]: the transaction object the caller passed
TxOf(s) == At(s.args.params.list, 0).obj

\* provider.request({method, params}) whose promise the handler returns
CallTransport(s, method, params) ==
  [s EXCEPT !.pc = "awaitTransport",
            !.transportCalls = Append(@, [method |-> method, params |-> params,
                                          response |-> "pending", value |-> <<>>])]

\* account.signTransaction / signMessage / signTypedData
Sign(s, account, op, ntx, message, typedData) ==
  [s EXCEPT !.signCalls = Append(@, [account |-> account, op |-> op, tx |-> ntx,
                                     message |-> message, typedData |-> typedData])]

------------------------------------------------------------------------------
(* eth_sendTransaction                                                     *)

\* the branch on (impersonate?.mode, account) that both variants end with
Resolution(opts, accts, s) ==
  IF opts.mode # "always" /\ s.account # 0
  THEN IF opts.variant = "client"
       THEN \* clients.wallet.sendTransaction({...viemTx, account}): viem signs
            \* with the local account and submits the raw transaction
            CallTransport(Sign(s, s.account, "signTransaction",
                               toViemTransaction(TxOf(s)).tx, <<>>, Undefined),
                          "eth_sendRawTransaction", Params(<<Str("signedTx")>>))
       ELSE CallTransport(Sign(s, s.account, "signTransaction", parseTxParams(TxOf(s)),
                               <<>>, Undefined),
                          "eth_sendRawTransaction", Params(<<Str("signedTx")>>))
  ELSE IF opts.mode # "none"
  THEN IF shouldImpersonate(opts, accts, TxOf(s).from)
       THEN [s EXCEPT !.pc = "awaitImpersonate",
                      !.impersonateCalls =
                         Append(@, [address |-> TxOf(s).from, response |-> "pending"])]
       ELSE Reject(s, "Account not available, not even as impersonation", <<>>)
  ELSE Reject(s, "Account not available", <<>>)

\* client variant: if (clients) return clients; else await eth_chainId
getClients(opts, accts, cache, s) ==
  IF cache # <<>>
  THEN Resolution(opts, accts, [s EXCEPT !.client = cache])
  ELSE [s EXCEPT !.pc = "awaitChainId",
                 !.transportCalls = Append(@, [method |-> "eth_chainId",
                                               params |-> NoParams,
                                               response |-> "pending",
                                               value |-> <<>>])]

eth_sendTransaction(opts, accts, cache, s, params) ==
  LET tx == At(params, 0).obj
  IN IF opts.variant = "client"
     THEN LET errors == validateTransaction(tx)
              viem == toViemTransaction(tx)
              account == FindIgnoringCase(accts, tx.from)
          IN IF opts.doNotFillMissingFields /\ errors # <<>>
             THEN Reject(s, "Missing mandatory fields", errors)
             ELSE IF ~viem.ok
             THEN Reject(s, "tx type not implemented", <<tx.type>>)
             ELSE IF accts # <<>> /\ tx.from = Undefined
             THEN \* tx.from.toLowerCase() on undefined, inside accounts.find
                  Reject(s, "TypeError", <<>>)
             ELSE getClients(opts, accts, cache, [s EXCEPT !.account = account])
     ELSE Resolution(opts, accts,
                     [s EXCEPT !.account = FindExact(accts, tx.from)])

------------------------------------------------------------------------------
(* The other account handlers.                                             *)

\* a destructured string parameter; undefined when missing
StrOf(v) == IF v.tag = "string" THEN v.str ELSE Undefined

\* message.length rendered in the template string
LengthString(m) ==
  CASE m = "hello" -> "5"
    [] m = "" -> "0"

eth_accounts(accts, s) == Resolve(s, "addresses", accts)

eth_requestAccounts(accts, s) == Resolve(s, "addresses", accts)

\* faulty variant: asks the impersonation authority when no account matches
personal_sign_Impersonating(accts, s, params) ==
  LET message == StrOf(At(params, 0))
      address == StrOf(At(params, 1))
      account == FindExact(accts, address)
  IN IF account = 0
     THEN [s EXCEPT !.pc = "awaitImpersonate",
                    !.impersonateCalls =
                       Append(@, [address |-> address, response |-> "pending"])]
     ELSE Resolve(Sign(s, account, "signMessage", NoNormTx, <<message>>, Undefined),
                  "signature", <<"signature">>)

personal_sign(accts, s, params) ==
  LET message == StrOf(At(params, 0))
      address == StrOf(At(params, 1))
      account == FindExact(accts, address)
      prefixedMessage == <<"\\x19Ethereum Signed Message:\\n", LengthString(message), message>>
  IN IF account = 0
     THEN Reject(s, "Account not available for signing", <<>>)
     ELSE Resolve(Sign(s, account, "signMessage", NoNormTx, prefixedMessage, Undefined),
                  "signature", <<"signature">>)

eth_sign(accts, s, params) ==
  LET address == StrOf(At(params, 0))
      message == StrOf(At(params, 1))
      account == FindExact(accts, address)
  IN IF account = 0
     THEN Reject(s, "Account not available for signing", <<>>)
     ELSE Resolve(Sign(s, account, "signMessage", NoNormTx, <<message>>, Undefined),
                  "signature", <<"signature">>)

eth_signTransaction(opts, accts, s, params) ==
  IF opts.variant = "client"
  THEN Reject(s, "eth_signTransaction not implemented", <<>>)
  ELSE LET tx == At(params, 0).obj
           account == FindExact(accts, tx.from)
           signTxParams == [parseTxParams(tx) EXCEPT
                              !.value = IF Truthy(tx.value) THEN <<HexValue(tx.value)>> ELSE @]
       IN IF account = 0
          THEN Reject(s, "Account not available for signing", <<>>)
          ELSE Resolve(Sign(s, account, "signTransaction",
                            signTxParams, <<>>, Undefined),
                       "signature", <<"signedTx">>)

eth_signTypedData(accts, s, params) ==
  LET address == StrOf(At(params, 0))
      typedData == StrOf(At(params, 1))
      account == FindExact(accts, address)
  IN IF account = 0
     THEN Reject(s, "Account not available for signing", <<>>)
     ELSE Resolve(Sign(s, account, "signTypedData", NoNormTx, <<>>, typedData),
                  "signature", <<"signature">>)

eth_signTypedData_v4(accts, s, params) ==
  LET address == StrOf(At(params, 0))
      typedData == StrOf(At(params, 1))
      account == FindExact(accts, address)
  IN IF account = 0
     THEN Reject(s, "Account not available for signing", <<>>)
     ELSE Resolve(Sign(s, account, "signTypedData", NoNormTx, <<>>, typedData),
                  "signature", <<"signature">>)

accountHandlers(opts, accts, cache, s, method, params) ==
  CASE method = "eth_sendTransaction" -> eth_sendTransaction(opts, accts, cache, s, params)
    [] method = "eth_accounts" -> eth_accounts(accts, s)
    [] method = "eth_requestAccounts" -> eth_requestAccounts(accts, s)
    [] method = "personal_sign" -> personal_sign(accts, s, params)
    [] method = "eth_sign" -> eth_sign(accts, s, params)
    [] method = "eth_signTransaction" -> eth_signTransaction(opts, accts, s, params)
    [] method = "eth_signTypedData" -> eth_signTypedData(accts, s, params)
    [] method = "eth_signTypedData_v4" -> eth_signTypedData_v4(accts, s, params)

------------------------------------------------------------------------------
(* Compatibility fix, raw variant.                                         *)

\* the methods of tevmPendingCountFix: none when the option is off
tevmPendingCountFix(opts) ==
  IF opts.tevmPendingCount THEN {"eth_getTransactionCount"} ELSE {}

\* faulty variant: forwards the block tag as received
eth_getTransactionCount_TagKept(s, params) ==
  CallTransport(s, "eth_getTransactionCount", Params(<<At(params, 0), At(params, 1)>>))

eth_getTransactionCount(s, params) ==
  LET p1 == At(params, 1)
      modifiedParam1 == IF p1 = Str("pending") THEN Str("latest") ELSE p1
  IN CallTransport(s, "eth_getTransactionCount", Params(<<At(params, 0), modifiedParam1>>))

------------------------------------------------------------------------------
(* The handler table and the request entry point.                          *)

\* faulty variant: the spreads in the opposite order: built-ins replace the
\* caller's handlers, the fix replaces built-ins
Layers_Reversed(opts) ==
  IF opts.variant = "client"
  THEN << [name |-> "override", methods |-> opts.handlers],
          [name |-> "builtin", methods |-> AccountMethods] >>
  ELSE << [name |-> "builtin", methods |-> AccountMethods],
          [name |-> "fix", methods |-> tevmPendingCountFix(opts)] >>

\* The object spreads, in order: a later layer replaces an earlier one.
Layers(opts) ==
  IF opts.variant = "client"
  THEN << [name |-> "builtin", methods |-> AccountMethods],
          [name |-> "override", methods |-> opts.handlers] >>
  ELSE << [name |-> "fix", methods |-> tevmPendingCountFix(opts)],
          [name |-> "builtin", methods |-> AccountMethods] >>

\* handlers[method]: the layer whose handler the merged table holds, "none"
\* when the table has no such key
handlers(opts, method) ==
  LET layers == Layers(opts)
      has == {i \in 1..Len(layers) : method \in layers[i].methods}
  IN IF has = {} THEN "none"
     ELSE layers[CHOOSE i \in has : \A j \in has : j <= i].name

\* a caller-supplied handler: opaque, makes no call of its own in the model
override(s, method) == Resolve(s, "override", <<method>>)

\* faulty variant: forwards the defaulted params: a missing params becomes []
forward_DefaultedParams(s, args, params) == CallTransport(s, args.method, Params(params))

\* no handler: provider.request({method: args.method, params: args.params})
forward(s, args, params) == CallTransport(s, args.method, args.params)

request(opts, accts, cache, args) ==
  LET params == IF args.params.present THEN args.params.list ELSE <<>>
      handler == handlers(opts, args.method)
      s == [IdleSlot EXCEPT !.args = args,
                            !.ran = IF handler = "none" THEN "passthrough" ELSE handler]
  IN CASE handler = "none" -> forward(s, args, params)
       [] handler = "override" -> override(s, args.method)
       [] handler = "fix" -> eth_getTransactionCount(s, params)
       [] handler = "builtin" -> accountHandlers(opts, accts, cache, s, args.method, params)

------------------------------------------------------------------------------
(* Configurations and requests explored.                                   *)

KeyLists == {<<>>, <<"pk1">>}

\* impersonation settings: mode and, for mode "list", the list
Impersonations ==
  {[mode |-> m, list |-> <<>>] : m \in {"none", "always", "unknown"}}
    \cup {[mode |-> "list", list |-> l] : l \in {<<"0xcd02">>, <<"0xCd02">>}}

\* options.handlers of the client variant
HandlerSets == {{}, {"eth_sendTransaction", "custom_method"},
                {"eth_accounts", "personal_sign", "eth_getTransactionCount"}}

MkOptions(v, k, imp, strict, fix, h) ==
  [variant |-> v, privateKeys |-> k, mode |-> imp.mode, list |-> imp.list,
   doNotFillMissingFields |-> strict, tevmPendingCount |-> fix, handlers |-> h,
   mnemonic |-> Undefined, numAccounts |-> <<>>]

\* the largest accounts.numAccounts explored
MaxNumAccounts == 2

\* accounts.numAccounts: not supplied, or a count
NumAccountsOptions == {<<>>} \cup {<<n>> : n \in 0..MaxNumAccounts}

NoImpersonation == [mode |-> "none", list |-> <<>>]

\* registries of two keys, of a repeated key, and derived from a mnemonic,
\* every other option left out
RegistryConfigs ==
  {MkOptions(v, k, NoImpersonation, FALSE, FALSE, {}) :
     v \in Variants, k \in {<<"pk2", "pk1">>, <<"pk1", "pk1">>}}
    \cup {[MkOptions(v, <<>>, NoImpersonation, FALSE, FALSE, {})
            EXCEPT !.mnemonic = "mnemonic", !.numAccounts = n] :
            v \in Variants, n \in NumAccountsOptions}

\* each variant with the options its ProviderOptions declares
Configs ==
  {MkOptions("client", k, imp, strict, FALSE, h) :
     k \in KeyLists, imp \in Impersonations, strict \in BOOLEAN, h \in HandlerSets}
    \cup {MkOptions("raw", k, imp, FALSE, fix, {}) :
            k \in KeyLists, imp \in Impersonations, fix \in BOOLEAN}
    \cup RegistryConfigs

Froms == {Undefined, "0xAb01", "0xab01", "0xcd02"}
Types == {Undefined, "0x0", "0x1", "0x2", "0x9"}
Presence == {Undefined, "0x1"}

BaseTx == [NoTx EXCEPT !.to = "0xcd02", !.data = "0x1", !.chainId = "0x1",
                       !.value = "0x1"]

FullTx == [BaseTx EXCEPT !.gas = "0x1", !.nonce = "0x1", !.gasPrice = "0x1",
                         !.maxFeePerGas = "0x1", !.maxPriorityFeePerGas = "0x1"]

ZeroOrAbsent == {Undefined, "0x0"}

\* a local sender, each format, and the wire fields absent or zero
ZeroTxSet ==
  {[FullTx EXCEPT !.from = "0xAb01", !.type = t, !.to = td, !.data = td,
                  !.nonce = ng, !.gas = ng, !.chainId = c, !.value = v] :
     t \in {Undefined, "0x1", "0x2"}, td \in ZeroOrAbsent, ng \in ZeroOrAbsent,
     c \in ZeroOrAbsent, v \in ZeroOrAbsent}

\* every sender and type with all fields set, and every combination of missing
\* mandatory fields for a missing sender and for a sender written in lower case
TxSet ==
  {[FullTx EXCEPT !.from = f, !.type = t] : f \in Froms, t \in Types}
    \cup {[BaseTx EXCEPT !.from = f, !.type = t, !.gas = g, !.nonce = n,
                         !.gasPrice = gp, !.maxFeePerGas = mf,
                         !.maxPriorityFeePerGas = mp] :
            f \in {Undefined, "0xab01"}, t \in Types, g \in Presence, n \in Presence,
            gp \in Presence, mf \in Presence, mp \in Presence}
    \cup ZeroTxSet

SignTxSet == {[FullTx EXCEPT !.from = f, !.type = t] : f \in Froms \ {Undefined}, t \in Types}

SignerAddresses == {"0xAb01", "0xab01", "0xcd02"}
Messages == {"hello"}
BlockTags == {"pending", "latest", "earliest"}

Req(m, p) == [method |-> m, params |-> p]

OtherParams == {NoParams, Params(<<>>), Params(<<Str("x")>>)}

Requests ==
  {Req("eth_sendTransaction", Params(<<Obj(tx)>>)) : tx \in TxSet}
    \cup {Req("eth_signTransaction", Params(<<Obj(tx)>>)) : tx \in SignTxSet}
    \cup {Req(m, p) : m \in {"eth_accounts", "eth_requestAccounts"},
                      p \in {NoParams, Params(<<>>)}}
    \cup {Req("personal_sign", Params(<<Str(msg), Str(a)>>)) :
            msg \in Messages, a \in SignerAddresses}
    \cup {Req("eth_sign", Params(<<Str(a), Str(msg)>>)) :
            msg \in Messages, a \in SignerAddresses}
    \cup {Req(m, Params(<<Str(a), Str("typedData")>>)) :
            m \in {"eth_signTypedData", "eth_signTypedData_v4"}, a \in SignerAddresses}
    \cup {Req("eth_getTransactionCount", Params(<<Str("0xab01"), Str(t)>>)) : t \in BlockTags}
    \cup {Req("eth_getTransactionCount", p) : p \in {NoParams, Params(<<Str("0xab01")>>)}}
    \cup {Req(m, p) : m \in {"net_version", "custom_method"}, p \in OtherParams}

\* chain identifiers the transport may answer eth_chainId with
ChainIds == {"0x1", "0x2"}
OneChainId == {"0x1"}

------------------------------------------------------------------------------
(* Actions.                                                                *)

Init ==
  /\ options \in Configs
  /\ accounts = BuildAccounts(options)
  /\ clients = <<>>
  /\ slots = [p \in Procs |-> IdleSlot]

\* request(args) is called: the handler runs up to its first suspension
Call(p, args) ==
  /\ slots[p].pc = "idle"
  /\ slots' = [slots EXCEPT ![p] = request(options, accounts, clients, args)]
  /\ UNCHANGED <<options, accounts, clients>>

\* the last transport call of s answered
Answered(s, ok, value) ==
  [s EXCEPT !.transportCalls[Len(s.transportCalls)].response = IF ok THEN "ok" ELSE "error",
            !.transportCalls[Len(s.transportCalls)].value = value]

\* the underlying transport answers eth_chainId: getClients continues
ChainIdRespond(p, ok, chainId) ==
  /\ slots[p].pc = "awaitChainId"
  /\ IF ok
     THEN LET built == <<[chainId |-> HexValue(chainId), id |-> p]>>
              s == [Answered(slots[p], TRUE, <<chainId>>) EXCEPT
                      !.built = TRUE, !.client = built]
          IN /\ clients' = built
             /\ slots' = [slots EXCEPT ![p] = Resolution(options, accounts, s)]
     ELSE /\ clients' = clients
          /\ slots' = [slots EXCEPT ![p] =
                         Reject(Answered(slots[p], FALSE, <<"eth_chainId", "error">>),
                                "transport", <<"eth_chainId", "error">>)]
  /\ UNCHANGED <<options, accounts>>

\* the underlying transport answers the call whose promise the handler returned
TransportRespond(p, ok) ==
  /\ slots[p].pc = "awaitTransport"
  /\ LET call == slots[p].transportCalls[Len(slots[p].transportCalls)]
         value == <<call.method, IF ok THEN "result" ELSE "error">>
         s == Answered(slots[p], ok, value)
     IN slots' = [slots EXCEPT ![p] =
                    IF ok THEN Resolve(s, "transport", value)
                    ELSE Reject(s, "transport", value)]
  /\ UNCHANGED <<options, accounts, clients>>

\* faulty variant: re-issues the request although impersonateAccount failed
ImpersonateRespond_ErrorSwallowed(p, ok) ==
  /\ slots[p].pc = "awaitImpersonate"
  /\ LET s == [slots[p] EXCEPT
                 !.impersonateCalls[Len(slots[p].impersonateCalls)].response =
                    IF ok THEN "ok" ELSE "error"]
     IN slots' = [slots EXCEPT ![p] =
                    CallTransport(s, "eth_sendTransaction", Params(<<Obj(TxOf(s))>>))]
  /\ UNCHANGED <<options, accounts, clients>>

\* the impersonation authority answers impersonateAccount
ImpersonateRespond(p, ok) ==
  /\ slots[p].pc = "awaitImpersonate"
  /\ LET s == [slots[p] EXCEPT
                 !.impersonateCalls[Len(slots[p].impersonateCalls)].response =
                    IF ok THEN "ok" ELSE "error"]
     IN slots' = [slots EXCEPT ![p] =
                    IF ok
                    THEN CallTransport(s, "eth_sendTransaction", Params(<<Obj(TxOf(s))>>))
                    ELSE Reject(s, "impersonator", <<"impersonateAccount", "error">>)]
  /\ UNCHANGED <<options, accounts, clients>>

\* the caller has its answer; the slot is free for the next request
Return(p) ==
  /\ slots[p].pc = "done"
  /\ slots' = [slots EXCEPT ![p] = IdleSlot]
  /\ UNCHANGED <<options, accounts, clients>>

\* one request at a time, every request shape
Next ==
  \/ \E args \in Requests : Call(1, args)
  \/ \E ok \in BOOLEAN, c \in OneChainId : ChainIdRespond(1, ok, c)
  \/ \E ok \in BOOLEAN : TransportRespond(1, ok)
  \/ \E ok \in BOOLEAN : ImpersonateRespond(1, ok)
  \/ Return(1)

Spec == Init /\ [][Next]_vars

------------------------------------------------------------------------------
(* Concurrent requests: up to MaxConc requests in flight, interleaved at    *)
(* their suspension points.                                                *)

ConcConfigs ==
  {MkOptions(v, k, [mode |-> m, list |-> <<>>], FALSE, FALSE, {}) :
     v \in Variants, k \in KeyLists, m \in {"none", "unknown"}}

ConcRequests ==
  {Req("eth_sendTransaction", Params(<<Obj([FullTx EXCEPT !.from = f])>>)) :
     f \in {"0xab01", "0xcd02"}}
    \cup {Req("net_version", NoParams)}

InitConc ==
  /\ options \in ConcConfigs
  /\ accounts = BuildAccounts(options)
  /\ clients = <<>>
  /\ slots = [p \in Procs |-> IdleSlot]

NextConc ==
  \E p \in Procs :
    \/ \E args \in ConcRequests : Call(p, args)
    \/ \E ok \in BOOLEAN, c \in ChainIds : ChainIdRespond(p, ok, c)
    \/ \E ok \in BOOLEAN : TransportRespond(p, ok)
    \/ \E ok \in BOOLEAN : ImpersonateRespond(p, ok)
    \/ Return(p)

SpecConc == InitConc /\ [][NextConc]_vars

------------------------------------------------------------------------------
(* Vocabulary of the properties.                                           *)

\* a request the built-in eth_sendTransaction handler is serving or has served
IsSend(s) == s.pc # "idle" /\ s.args.method = "eth_sendTransaction" /\ s.ran = "builtin"

\* the registry's lookup as specified: case-insensitive
MatchesLocal(address) ==
  /\ address # Undefined
  /\ \E i \in 1..Len(accounts) : toLowerCase(accounts[i]) = toLowerCase(address)

CallsOf(s, method) == {i \in 1..Len(s.transportCalls) : s.transportCalls[i].method = method}

\* the request was settled with the answer of its transport call i
SettledBy(s, i) ==
  /\ s.transportCalls[i].response # "pending"
  /\ s.outcome.status = (IF s.transportCalls[i].response = "ok" THEN "resolved" ELSE "rejected")
  /\ s.outcome.kind = "transport"
  /\ s.outcome.value = s.transportCalls[i].value

NoCalls(s) == s.transportCalls = <<>> /\ s.impersonateCalls = <<>> /\ s.signCalls = <<>>

RejectedAs(s, kind) == s.pc = "done" /\ s.outcome.status = "rejected" /\ s.outcome.kind = kind

------------------------------------------------------------------------------
\* C1: client variant - requests that start while the client cache is empty
\* share one eth_chainId lookup that did not fail and one constructed client
\* pair, and all use that client.
C1_SingleFlight ==
  options.variant = "client" =>
    /\ Cardinality({p \in Procs : \E i \in CallsOf(slots[p], "eth_chainId") :
                                    slots[p].transportCalls[i].response # "error"}) <= 1
    /\ Cardinality({p \in Procs : slots[p].built}) <= 1
    /\ \A p, q \in Procs :
         slots[p].client # <<>> /\ slots[q].client # <<>> => slots[p].client = slots[q].client

------------------------------------------------------------------------------
(* eth_sendTransaction: the outcomes a request may legitimately end in.    *)

\* rejected by strict validation before anything else happened
StrictRejection(s) ==
  options.doNotFillMissingFields /\ RejectedAs(s, "Missing mandatory fields") /\ NoCalls(s)

\* signed with the local account `a` and broadcast; settled by the broadcast
LocallySigned(s) ==
  /\ Len(s.signCalls) = 1
  /\ s.signCalls[1].op = "signTransaction"
  /\ toLowerCase(accounts[s.signCalls[1].account]) = toLowerCase(TxOf(s).from)
  /\ Cardinality(CallsOf(s, "eth_sendRawTransaction")) = 1
  /\ \A i \in CallsOf(s, "eth_sendRawTransaction") : SettledBy(s, i)

\* impersonateAccount failed: the request is rejected and nothing is re-issued
ImpersonationFailed(s) ==
  /\ Len(s.impersonateCalls) = 1
  /\ s.impersonateCalls[1].response = "error"
  /\ RejectedAs(s, "impersonator")
  /\ CallsOf(s, "eth_sendTransaction") = {}

\* impersonated once, then the original request re-issued once and its answer
\* returned
Delegated(s) ==
  /\ Len(s.impersonateCalls) = 1
  /\ s.impersonateCalls[1].address = TxOf(s).from
  /\ s.impersonateCalls[1].response = "ok"
  /\ Cardinality(CallsOf(s, "eth_sendTransaction")) = 1
  /\ \A i \in CallsOf(s, "eth_sendTransaction") :
       s.transportCalls[i].params = s.args.params /\ SettledBy(s, i)

\* at every moment: at most one impersonateAccount, for tx.from, and an
\* eth_sendTransaction goes out only after it has succeeded, unmodified
ImpersonateThenReissue(s) ==
  /\ Len(s.impersonateCalls) <= 1
  /\ \A k \in 1..Len(s.impersonateCalls) : s.impersonateCalls[k].address = TxOf(s).from
  /\ Cardinality(CallsOf(s, "eth_sendTransaction")) <= 1
  /\ \A i \in CallsOf(s, "eth_sendTransaction") :
       /\ Len(s.impersonateCalls) = 1
       /\ s.impersonateCalls[1].response = "ok"
       /\ s.transportCalls[i].params = s.args.params

\* a rejection the specified flow allows on the local-signing path: strict
\* validation, an unsupported type, or a transport failure
LocalPathRejection(s) ==
  \/ StrictRejection(s)
  \/ RejectedAs(s, "tx type not implemented")
  \/ RejectedAs(s, "transport")

\* C2: eth_sendTransaction whose from matches a local account, impersonation
\* mode not "always": impersonateAccount is never invoked, eth_sendTransaction
\* is never re-issued, and the request ends signed by that account and settled by
\* the broadcast (unless validation, normalisation or the transport rejected it).
C2_LocalAccountSignsLocally ==
  \A p \in Procs :
    LET s == slots[p]
    IN IsSend(s) /\ MatchesLocal(TxOf(s).from) /\ options.mode # "always" =>
         /\ s.impersonateCalls = <<>>
         /\ CallsOf(s, "eth_sendTransaction") = {}
         /\ s.pc = "done" => LocallySigned(s) \/ LocalPathRejection(s)

\* C3: eth_sendTransaction whose from matches no local account, mode "unknown",
\* whatever its type and fee fields: impersonateAccount once for tx.from, then
\* the original request re-issued once and its answer returned (unless strict
\* validation rejected it or the impersonation authority failed).
C3_UnknownIsImpersonated ==
  \A p \in Procs :
    LET s == slots[p]
    IN IsSend(s) /\ TxOf(s).from # Undefined /\ ~MatchesLocal(TxOf(s).from)
         /\ options.mode = "unknown" =>
         /\ ImpersonateThenReissue(s)
         /\ s.signCalls = <<>>
         /\ s.pc = "done" => Delegated(s) \/ ImpersonationFailed(s) \/ StrictRejection(s)

\* from equals no entry of the configured list, even up to letter case
NotListed(address) ==
  \A i \in 1..Len(options.list) : toLowerCase(options.list[i]) # toLowerCase(address)

\* C4: eth_sendTransaction whose from matches no local account, mode "list",
\* from not in the list: rejected with 'Account not available, not even as
\* impersonation' (unless strict validation or the normaliser rejected it
\* first), no impersonateAccount, no eth_sendTransaction or
\* eth_sendRawTransaction sent.
C4_NotListedIsRejected ==
  \A p \in Procs :
    LET s == slots[p]
    IN IsSend(s) /\ TxOf(s).from # Undefined /\ ~MatchesLocal(TxOf(s).from)
         /\ options.mode = "list" /\ NotListed(TxOf(s).from) =>
         /\ s.impersonateCalls = <<>>
         /\ CallsOf(s, "eth_sendTransaction") = {}
         /\ CallsOf(s, "eth_sendRawTransaction") = {}
         /\ s.pc = "done" =>
              \/ RejectedAs(s, "Account not available, not even as impersonation")
              \/ StrictRejection(s)
              \/ RejectedAs(s, "tx type not implemented")

\* C5: mode "always": every eth_sendTransaction is impersonated and re-issued,
\* also for a local account; nothing is signed locally, no raw transaction is
\* sent (strict validation or a failing impersonation authority may reject it).
C5_AlwaysBypassesLocalSigning ==
  \A p \in Procs :
    LET s == slots[p]
    IN IsSend(s) /\ TxOf(s).from # Undefined /\ options.mode = "always" =>
         /\ s.signCalls = <<>>
         /\ CallsOf(s, "eth_sendRawTransaction") = {}
         /\ ImpersonateThenReissue(s)
         /\ s.pc = "done" => Delegated(s) \/ ImpersonationFailed(s) \/ StrictRejection(s)

------------------------------------------------------------------------------
(* Dispatch.                                                               *)

\* the params list a handler receives: [] when the request has none
ListOf(args) == IF args.params.present THEN args.params.list ELSE <<>>

FixOn == options.variant = "raw" /\ options.tevmPendingCount

\* the assembled handler table has no entry for the method
NoHandler(method) ==
  /\ method \notin AccountMethods
  /\ method \notin options.handlers
  /\ ~(FixOn /\ method = "eth_getTransactionCount")

\* C6: a method with no handler is forwarded in one transport call with the
\* same method and the same params (a missing params stays missing), without
\* any signer, impersonation or eth_chainId call, and the request is settled
\* with that call's result or error unchanged.
C6_PassThrough ==
  \A p \in Procs :
    LET s == slots[p]
    IN s.pc # "idle" /\ NoHandler(s.args.method) =>
         /\ s.ran = "passthrough"
         /\ Len(s.transportCalls) = 1
         /\ s.transportCalls[1].method = s.args.method
         /\ s.transportCalls[1].params = s.args.params
         /\ s.signCalls = <<>> /\ s.impersonateCalls = <<>>
         /\ IF s.pc = "done" THEN SettledBy(s, 1)
            ELSE s.transportCalls[1].response = "pending" /\ s.outcome = NoOutcome

\* a request without params was forwarded and its error came back
C6_Witness ==
  \E p \in Procs :
    /\ slots[p].pc = "done" /\ NoHandler(slots[p].args.method)
    /\ ~slots[p].args.params.present
    /\ slots[p].outcome.status = "rejected"

\* C7: a method named in options.handlers runs the caller's handler and never
\* the built-in one; a built-in method not named there runs the built-in
\* handler; a caller's handler for another name replaces the pass-through.
C7_LayeredResolution ==
  \A p \in Procs :
    LET s == slots[p]
        m == s.args.method
    IN s.pc # "idle" =>
         /\ m \in options.handlers =>
              /\ s.ran = "override" /\ NoCalls(s)
              /\ s.pc = "done" /\ s.outcome = [status |-> "resolved", kind |-> "override",
                                               value |-> <<m>>]
         /\ m \in AccountMethods \ options.handlers =>
              /\ s.ran = "builtin"
              /\ s.outcome.kind # "override"
              /\ m \in {"eth_accounts", "eth_requestAccounts"} =>
                   s.outcome = [status |-> "resolved", kind |-> "addresses",
                                value |-> accounts]

\* the caller's eth_sendTransaction ran although a local account could sign,
\* and the caller's eth_accounts answered in place of the registry
C7_Witness ==
  \E p \in Procs :
    /\ slots[p].pc = "done" /\ slots[p].ran = "override"
    /\ slots[p].args.method \in {"eth_sendTransaction", "eth_accounts"}
    /\ accounts # <<>>

\* C8: with the pending-nonce fix, eth_getTransactionCount goes out as one
\* eth_getTransactionCount call with the same first parameter and "pending"
\* replaced by "latest"; the fix shadows no account handler; without the fix
\* the request is passed through with its params untouched.
C8_PendingNonceFix ==
  \A p \in Procs :
    LET s == slots[p]
        m == s.args.method
        tag == At(ListOf(s.args), 1)
    IN s.pc # "idle" =>
         /\ m = "eth_getTransactionCount" /\ FixOn =>
              /\ s.ran = "fix"
              /\ Len(s.transportCalls) = 1
              /\ s.transportCalls[1].method = "eth_getTransactionCount"
              /\ s.transportCalls[1].params.present
              /\ Len(s.transportCalls[1].params.list) = 2
              /\ s.transportCalls[1].params.list[1] = At(ListOf(s.args), 0)
              /\ s.transportCalls[1].params.list[2] =
                   (IF tag = Str("pending") THEN Str("latest") ELSE tag)
              /\ s.signCalls = <<>> /\ s.impersonateCalls = <<>>
         /\ m = "eth_getTransactionCount" /\ ~FixOn /\ m \notin options.handlers =>
              /\ s.ran = "passthrough"
              /\ Len(s.transportCalls) = 1
              /\ s.transportCalls[1].method = "eth_getTransactionCount"
              /\ s.transportCalls[1].params = s.args.params
         /\ m \in AccountMethods /\ options.variant = "raw" => s.ran = "builtin"

\* a "pending" lookup was answered after being forwarded as "latest"
C8_Witness ==
  \E p \in Procs :
    /\ FixOn /\ slots[p].pc = "done"
    /\ slots[p].args.method = "eth_getTransactionCount"
    /\ At(ListOf(slots[p].args), 1) = Str("pending")
    /\ slots[p].transportCalls[1].params.list[2] = Str("latest")

------------------------------------------------------------------------------
(* Normalisation and strict validation.                                    *)

SupportedTypes == {Undefined, "0x0", "0x1", "0x2"}

\* a request whose transaction the built-in eth_signTransaction handler got
IsSignTransaction(s) ==
  s.pc # "idle" /\ s.args.method = "eth_signTransaction" /\ s.ran = "builtin"

\* C9: a transaction whose type is present and not 0x0, 0x1 or 0x2 is never
\* signed and never broadcast as a raw transaction; on the local-signing path
\* the request is rejected.
C9_UnsupportedTypeRejected ==
  \A p \in Procs :
    LET s == slots[p]
    IN (IsSend(s) \/ IsSignTransaction(s)) /\ TxOf(s).type \notin SupportedTypes =>
         /\ s.signCalls = <<>>
         /\ CallsOf(s, "eth_sendRawTransaction") = {}
         /\ s.pc = "done" /\ MatchesLocal(TxOf(s).from) /\ options.mode # "always" =>
              s.outcome.status = "rejected"

\* the fields strict mode requires of a transaction of the selected format
RequiredFields(tx) ==
  {"from", "gas", "nonce"}
    \cup (IF tx.type = "0x2" THEN {"maxFeePerGas", "maxPriorityFeePerGas"}
          ELSE {"gasPrice"})

MissingFields(tx) == {f \in RequiredFields(tx) : tx[f] = Undefined}

\* C10: strict mode, client variant, one of the three formats selected: the
\* request is rejected with 'Missing mandatory fields' exactly when a required
\* field is missing; the error names every missing field once, and nothing was
\* called before the rejection.
C10_StrictValidation ==
  \A p \in Procs :
    LET s == slots[p]
        missing == MissingFields(TxOf(s))
    IN IsSend(s) /\ options.variant = "client" /\ options.doNotFillMissingFields
         /\ TxOf(s).type \in SupportedTypes =>
         /\ RejectedAs(s, "Missing mandatory fields") <=> missing # {}
         /\ missing # {} =>
              /\ {s.outcome.value[i] : i \in 1..Len(s.outcome.value)} = missing
              /\ Len(s.outcome.value) = Cardinality(missing)
              /\ NoCalls(s)

\* a legacy request without nonce and gasPrice was rejected naming both
C10_Witness ==
  \E p \in Procs :
    /\ IsSend(slots[p]) /\ options.doNotFillMissingFields
    /\ TxOf(slots[p]).type = Undefined
    /\ MissingFields(TxOf(slots[p])) = {"nonce", "gasPrice"}
    /\ slots[p].outcome = [status |-> "rejected", kind |-> "Missing mandatory fields",
                           value |-> <<"nonce", "gasPrice">>]

------------------------------------------------------------------------------
(* What the signing capability is handed.                                  *)

\* the format the specification selects for a supported type
FormatOf(type) ==
  CASE type = "0x1" -> "eip2930"
    [] type = "0x2" -> "eip1559"
    [] type \in {Undefined, "0x0"} -> "legacy"

\* the transactions a request has handed to account.signTransaction
SignedTxs(s) ==
  {s.signCalls[k].tx : k \in {i \in 1..Len(s.signCalls) :
                                 s.signCalls[i].op = "signTransaction"}}

\* C11: the transaction handed to the signer has the format selected by type
\* alone (0x1 access-list, 0x2 fee-market, absent or 0x0 legacy) and only that
\* format's fee fields: fee-market carries both max-fee fields decoded and no
\* gasPrice even when the request has one; legacy and access-list carry
\* gasPrice and neither max-fee field.
C11_FormatAndFeeFields ==
  \A p \in Procs :
    LET s == slots[p]
        tx == TxOf(s)
    IN (IsSend(s) \/ IsSignTransaction(s)) /\ tx.type \in SupportedTypes =>
         \A n \in SignedTxs(s) :
           /\ n.type = FormatOf(tx.type)
           /\ IF tx.type = "0x2"
              THEN /\ n.maxFeePerGas = Num(tx.maxFeePerGas)
                   /\ n.maxPriorityFeePerGas = Num(tx.maxPriorityFeePerGas)
                   /\ n.gasPrice = <<>>
              ELSE /\ n.gasPrice = Num(tx.gasPrice)
                   /\ n.maxFeePerGas = <<>>
                   /\ n.maxPriorityFeePerGas = <<>>

WireTextFields == {"to", "data"}
WireNumberFields == {"nonce", "gas", "chainId", "value"}

\* C12: on the local-signing path the transaction handed to the signer carries
\* each of to, data, nonce, gas, chainId, value decoded whenever the request
\* has it (zero included) and omits it whenever the request does not.
C12_WireFieldsCarried ==
  \A p \in Procs :
    LET s == slots[p]
        tx == TxOf(s)
    IN (IsSend(s) \/ IsSignTransaction(s)) /\ tx.type \in SupportedTypes =>
         \A n \in SignedTxs(s) :
           /\ \A f \in WireTextFields : n[f] = tx[f]
           /\ \A f \in WireNumberFields :
                n[f] = (IF tx[f] = Undefined THEN <<>> ELSE <<HexValue(tx[f])>>)

------------------------------------------------------------------------------
(* The account registry.                                                   *)

\* a request the built-in eth_accounts or eth_requestAccounts handler served
IsAccountsQuery(s) ==
  /\ s.pc # "idle" /\ s.ran = "builtin"
  /\ s.args.method \in {"eth_accounts", "eth_requestAccounts"}

Addressed(s, addresses) ==
  s.outcome = [status |-> "resolved", kind |-> "addresses", value |-> addresses]

\* C13: eth_accounts and eth_requestAccounts answer, without any transport
\* call, the registry's addresses in order: for private keys one address per
\* key in input order, a repeated key repeated; without key material the empty
\* list.
C13_AccountsListed ==
  \A p \in Procs :
    LET s == slots[p]
        keys == options.privateKeys
    IN IsAccountsQuery(s) =>
         /\ s.pc = "done" /\ NoCalls(s)
         /\ Addressed(s, accounts)
         /\ options.mnemonic = Undefined =>
              Addressed(s, [i \in 1..Len(keys) |-> privateKeyToAccount(keys[i])])

\* the registry of a key given twice was listed with its address twice
C13_Witness ==
  \E p \in Procs :
    /\ IsAccountsQuery(slots[p])
    /\ options.privateKeys = <<"pk1", "pk1">>
    /\ Addressed(slots[p], <<"0xAb01", "0xAb01">>)

\* C14: a mnemonic with a supplied count N, zero included, lists exactly the N
\* accounts derived at indices 0..N-1; without a supplied count it lists the
\* default of 10.
C14_MnemonicCount ==
  \A p \in Procs :
    LET s == slots[p]
        N == IF options.numAccounts = <<>> THEN DefaultNumAccounts
             ELSE options.numAccounts[1]
    IN IsAccountsQuery(s) /\ options.mnemonic # Undefined =>
         Addressed(s, [i \in 1..N |-> mnemonicToAccount(options.mnemonic, i - 1)])

------------------------------------------------------------------------------
(* The signing methods.                                                    *)

SigningMethods == {"personal_sign", "eth_sign", "eth_signTransaction",
                   "eth_signTypedData", "eth_signTypedData_v4"}

\* a request a built-in signing handler is serving or has served
IsSigning(s) == s.pc # "idle" /\ s.ran = "builtin" /\ s.args.method \in SigningMethods

\* the address the caller asks a signature of
SignerAddress(s) ==
  CASE s.args.method = "personal_sign" -> At(ListOf(s.args), 1).str
    [] s.args.method = "eth_signTransaction" -> At(ListOf(s.args), 0).obj.from
    [] OTHER -> At(ListOf(s.args), 0).str

\* the first registry account whose address equals `address` up to letter case
FirstMatch(address) ==
  First({i \in 1..Len(accounts) : toLowerCase(accounts[i]) = toLowerCase(address)})

\* C15: addresses are compared ignoring letter case, first match first: a
\* signing method or eth_sendTransaction whose address equals a registry
\* address up to case uses that account (in mode "unknown" without
\* impersonation), and in mode "list" an address equal to a list entry up to
\* case is eligible for impersonation.
C15_CaseInsensitiveLookup ==
  \A p \in Procs :
    LET s == slots[p]
    IN /\ IsSigning(s) /\ MatchesLocal(SignerAddress(s)) =>
            \/ RejectedAs(s, "eth_signTransaction not implemented")
            \/ /\ Len(s.signCalls) = 1
               /\ s.signCalls[1].account = FirstMatch(SignerAddress(s))
               /\ s.outcome.status = "resolved"
       /\ IsSend(s) /\ MatchesLocal(TxOf(s).from) =>
            /\ \A k \in 1..Len(s.signCalls) :
                 s.signCalls[k].account = FirstMatch(TxOf(s).from)
            /\ options.mode = "unknown" => s.impersonateCalls = <<>>
            /\ s.pc = "done" /\ options.mode # "always" =>
                 LocallySigned(s) \/ LocalPathRejection(s)
       /\ IsSend(s) /\ TxOf(s).from # Undefined /\ ~MatchesLocal(TxOf(s).from)
            /\ options.mode = "list" /\ ~NotListed(TxOf(s).from) =>
            ~RejectedAs(s, "Account not available, not even as impersonation")

\* C16: a signing method, under every impersonation mode, never invokes
\* impersonateAccount and sends nothing to the transport; when its address has
\* no local account the request is rejected and no account signs.
C16_SigningStaysLocal ==
  \A p \in Procs :
    LET s == slots[p]
    IN IsSigning(s) =>
         /\ s.impersonateCalls = <<>> /\ s.transportCalls = <<>>
         /\ s.pc = "done"
         /\ ~MatchesLocal(SignerAddress(s)) =>
              s.outcome.status = "rejected" /\ s.signCalls = <<>>

\* in mode "always", with a local account present, a message signature asked
\* of an address that is not local was refused
C16_Witness ==
  \E p \in Procs :
    /\ IsSigning(slots[p]) /\ slots[p].args.method = "personal_sign"
    /\ options.mode = "always" /\ accounts # <<>>
    /\ ~MatchesLocal(SignerAddress(slots[p]))
    /\ RejectedAs(slots[p], "Account not available for signing")

------------------------------------------------------------------------------
(* Failures of eth_sendTransaction.                                        *)

\* the errors this layer itself raises for eth_sendTransaction
OwnRejections == {"Account not available",
                  "Account not available, not even as impersonation",
                  "tx type not implemented", "Missing mandatory fields"}

\* C17: an eth_sendTransaction this layer rejects itself (account unavailable,
\* unsupported type, missing mandatory fields) has sent nothing to the
\* transport, not even eth_chainId, has not invoked impersonateAccount, and has
\* not written the client cache.
C17_RejectedBeforeSideEffects ==
  \A p \in Procs :
    LET s == slots[p]
    IN IsSend(s) /\ (\E kind \in OwnRejections : RejectedAs(s, kind)) =>
         /\ s.transportCalls = <<>>
         /\ s.impersonateCalls = <<>>
         /\ ~s.built

------------------------------------------------------------------------------
(* The client cache, client variant.                                       *)

ChainIdLookups(s) == Cardinality(CallsOf(s, "eth_chainId"))

\* the eth_chainId call of s is awaiting its answer
LookupPending(s) ==
  s.pc = "awaitChainId" /\ s.transportCalls[Len(s.transportCalls)].response = "pending"

\* C18: client variant - the cache is written at most once: once it holds
\* clients no step changes it, issues an eth_chainId or constructs clients;
\* only an eth_sendTransaction writes it; a failed lookup rejects the request
\* with the transport's error and leaves the cache empty, and an
\* eth_sendTransaction that reaches the lookup with an empty cache issues it.
C18_CacheWrittenOnce ==
  [][options.variant = "client" =>
       /\ clients # <<>> =>
            /\ clients' = clients
            /\ \A p \in Procs :
                 /\ ChainIdLookups(slots'[p]) <= ChainIdLookups(slots[p])
                 /\ slots'[p].built => slots[p].built
       /\ clients' # clients =>
            \E p \in Procs : IsSend(slots'[p]) /\ slots'[p].built /\ ~slots[p].built
       /\ \A p \in Procs :
            /\ LookupPending(slots[p])
                 /\ slots'[p].transportCalls[Len(slots[p].transportCalls)].response = "error" =>
                 /\ clients' = clients
                 /\ RejectedAs(slots'[p], "transport")
                 /\ SettledBy(slots'[p], Len(slots[p].transportCalls))
            /\ slots[p].pc = "idle" /\ slots'[p].pc = "awaitChainId" =>
                 clients = <<>> /\ IsSend(slots'[p]) /\ LookupPending(slots'[p])
            /\ slots[p].pc = "idle" /\ IsSend(slots'[p]) /\ clients = <<>> =>
                 \/ slots'[p].pc = "awaitChainId"
                 \/ RejectedAs(slots'[p], "Missing mandatory fields")
                 \/ RejectedAs(slots'[p], "tx type not implemented")
                 \/ RejectedAs(slots'[p], "TypeError")]_vars

------------------------------------------------------------------------------
(* Failures on the impersonation path.                                     *)

\* C19: on the impersonation path impersonateAccount and the re-issued
\* eth_sendTransaction are each made at most once; when impersonateAccount
\* fails the request is rejected with its error and nothing is re-issued; when
\* the re-issued request fails the request is rejected with the transport's
\* error as it came.
C19_ImpersonationErrorsPropagate ==
  \A p \in Procs :
    LET s == slots[p]
    IN IsSend(s) /\ s.impersonateCalls # <<>> =>
         /\ Len(s.impersonateCalls) = 1
         /\ Cardinality(CallsOf(s, "eth_sendTransaction")) <= 1
         /\ s.impersonateCalls[1].response = "error" =>
              /\ s.pc = "done"
              /\ s.outcome = [status |-> "rejected", kind |-> "impersonator",
                              value |-> <<"impersonateAccount", "error">>]
              /\ CallsOf(s, "eth_sendTransaction") = {}
         /\ \A i \in CallsOf(s, "eth_sendTransaction") :
              s.transportCalls[i].response = "error" =>
                /\ s.pc = "done" /\ s.outcome.status = "rejected"
                /\ SettledBy(s, i)
                /\ i = Len(s.transportCalls)

\* impersonateAccount succeeded, the re-issued request failed at the transport
\* and the caller got that error
C19_Witness ==
  \E p \in Procs :
    /\ IsSend(slots[p]) /\ Len(slots[p].impersonateCalls) = 1
    /\ slots[p].impersonateCalls[1].response = "ok"
    /\ \E i \in CallsOf(slots[p], "eth_sendTransaction") :
         slots[p].transportCalls[i].response = "error"
    /\ slots[p].outcome = [status |-> "rejected", kind |-> "transport",
                           value |-> <<"eth_sendTransaction", "error">>]

------------------------------------------------------------------------------
(* Message signing.                                                        *)

\* the request handed `message` to signMessage of the account at `address`
SignedMessage(s, address, message) ==
  /\ Len(s.signCalls) = 1
  /\ s.signCalls[1].op = "signMessage"
  /\ accounts[s.signCalls[1].account] = address
  /\ s.signCalls[1].message = message

\* C20: signMessage of a local account applies the Ethereum signed-message
\* prefix itself, so personal_sign [message, address] hands it the message
\* without a prefix; eth_sign [address, message] hands it the message
\* unchanged.
C20_PrefixAppliedOnce ==
  \A p \in Procs :
    LET s == slots[p]
        params == ListOf(s.args)
    IN s.pc # "idle" /\ s.ran = "builtin" /\ s.signCalls # <<>> =>
         /\ s.args.method = "personal_sign" =>
              SignedMessage(s, At(params, 1).str, <<At(params, 0).str>>)
         /\ s.args.method = "eth_sign" =>
              SignedMessage(s, At(params, 0).str, <<At(params, 1).str>>)

====
